---- MODULE Spec2Model ----
(***************************************************************************)
(* Order fulfilment of the AS/RS inventory backend.                        *)
(*                                                                         *)
(* OrderModel.createOrder (backend/models/order.js) runs on one pooled     *)
(* connection inside one storage transaction.  Every `await               *)
(* connection.query(...)` is one atomic step of the model; between two     *)
(* steps of a call any other call may take steps.  The tables are those of *)
(* inventory_management.sql (InnoDB): a transaction buffers its writes     *)
(* until COMMIT, ROLLBACK discards them, an UPDATE takes the row lock of   *)
(* the row it addresses and keeps it until the transaction ends, and a     *)
(* plain SELECT takes no lock.  The code does not set the isolation level  *)
(* of its session, so the model draws it in Init: under READ COMMITTED a   *)
(* SELECT reads what is committed when it runs, under REPEATABLE READ what *)
(* was committed at the first SELECT of the transaction; both add the      *)
(* transaction's own writes.                                               *)
(*                                                                         *)
(* Characters are modelled by their alphabetical rank (column 'A' = 1,     *)
(* sub_id 'a' = 1), because the ORDER BY of the selection compares them.   *)
(***************************************************************************)
EXTENDS Integers, Sequences, FiniteSets, TLC

\* ------------------------------------------------------------------ bounds
\* largest number of units (sum of the line quantities) of one request
MaxUnits == 2
\* largest unit price of a line
MaxPrice == 2

\* the largest identifier TransactionModel gives to a row
MaxTranId == 4

\* the largest available_count of a product of the storefront
MaxCount == 2

\* ---------------------------------------------------------------- topology
\* Boxes rows (box_id, column_name, row_number): a part of the 5 x 7 grid
Boxes ==
  { [box_id |-> "A1", column_name |-> 1, row_number |-> 1],
    [box_id |-> "A2", column_name |-> 1, row_number |-> 2],
    [box_id |-> "B1", column_name |-> 2, row_number |-> 1] }

\* SubCompartments rows, static part (subcom_place, box_id, sub_id)
Topology ==
  { [subcom_place |-> "A1b", box_id |-> "A1", sub_id |-> 2],
    [subcom_place |-> "A2a", box_id |-> "A2", sub_id |-> 1],
    [subcom_place |-> "B1a", box_id |-> "B1", sub_id |-> 1] }

Places == { t.subcom_place : t \in Topology }

\* Items rows (item_id): 1 Bearing, 2 Gear
Items == {1, 2}

\* item ids a request may name; 4 is in no Items row
RequestItems == Items \cup {4}

\* item_id NULL of a SubCompartments row (the item ids are positive)
NULL == 0
Undefined == "undefined"

\* the concurrent calls of createOrder
Calls == {"c1", "c2"}
NoCall == "none"
Earlier(c, d) == c = "c1" /\ d = "c2"

\* ----------------------------------------------------------------- helpers
Min(a, b) == IF a < b THEN a ELSE b

RECURSIVE SumSeq(_)
SumSeq(s) == IF s = << >> THEN 0 ELSE Head(s) + SumSeq(Tail(s))

Range(s) == { s[i] : i \in 1..Len(s) }

\* ---------------------------------------------------------------- requests
The(S) == CHOOSE x \in S : TRUE

\* a line of a request, as the controller lets it through: quantity > 0, price > 0
Lines(items, prices) ==
  [item_id : items, quantity : 1..MaxUnits, price : prices]

RECURSIVE Units(_)
Units(items) ==
  IF items = << >> THEN 0 ELSE Head(items).quantity + Units(Tail(items))

\* the non-empty item lists of at most MaxUnits units
ItemLists(items, prices) ==
  { s \in UNION { [1..n -> Lines(items, prices)] : n \in 1..MaxUnits } :
      Units(s) <= MaxUnits }

\* req.body as the controller hands it to the model
\* total_amount is << >> when the body carries none, << n >> when it carries n
Requests(items, prices, totals) ==
  [items : ItemLists(items, prices), total_amount : totals, order_status : {Undefined}]

NoRequest == [items |-> << >>, total_amount |-> << >>, order_status |-> Undefined]

\* requests with all prices and explicit totals
PricedRequests == Requests(RequestItems, 1..MaxPrice, {<< >>, << 0 >>, << 1 >>})

\* requests of unit price 1 and no explicit total
PlainRequests == Requests(RequestItems, {1}, {<< >>})

\* the plain requests that name catalog items only
CatalogRequests == Requests(Items, {1}, {<< >>})

\* ------------------------------------------------------------------- state
VARIABLES
  SubCompartments,  \* table SubCompartments, committed: place -> [item_id, status]
  Orders,           \* table Orders, committed rows
  OrderItems,       \* table OrderItems, committed rows
  Transactions,     \* table Transactions, committed rows
  autoInc,          \* AUTO_INCREMENT counters of Orders, OrderItems, Transactions
  rowLock,          \* SubCompartments row locks: place -> the call holding it
  isolation,        \* isolation level of the sessions
  pc,               \* position of each call in createOrder
  local,            \* local variables of each call
  txn,              \* open transaction of each call: its uncommitted writes
  result,           \* what each call returned (or threw) to its caller
  before,           \* history: the committed tables when each running call began
  req,              \* req.body of the HTTP request each call serves
  sqlMode,          \* sql_mode of the server
  aryan,            \* the notification to the hardware bridge in progress
  batch,            \* the createMultipleTransactions call in progress
  products,         \* storefront: available_count of each product
  cart,             \* storefront: the cart
  submission,       \* storefront: the order submission in progress
  fetcher,          \* admin frontend: the apiFetch call in progress
  conn,             \* history: what each call did with its pooled connection
  res               \* the answer to the last PATCH /api/orders/:id/status

vars == << SubCompartments, Orders, OrderItems, Transactions, autoInc, rowLock,
           isolation, pc, local, txn, result, before,
           req, sqlMode, aryan, batch, products, cart, submission, fetcher,
           conn, res >>

\* the state of the backend's order calls
orderVars == << SubCompartments, Orders, OrderItems, Transactions, autoInc, rowLock,
                isolation, pc, local, txn, result, before, conn, res >>

\* the state of the storefront
storefront == << products, cart, submission >>

tables == << SubCompartments, Orders, OrderItems, Transactions >>

\* the committed tables as one value
Committed ==
  [ SubCompartments |-> SubCompartments, Orders |-> Orders,
    OrderItems |-> OrderItems, Transactions |-> Transactions ]

\* a compartment row's mutable part
EmptyRow == [item_id |-> NULL, status |-> "Empty"]
OccupiedRow(i) == [item_id |-> i, status |-> "Occupied"]

\* mutant: SET status = 'Empty'
SetStatusEmpty(row) == [row EXCEPT !.status = "Empty"]

\* SET status = 'Empty', item_id = NULL
SetEmpty(row) == [row EXCEPT !.status = "Empty", !.item_id = NULL]

\* the ledgers in which every compartment is Empty or Occupied by a catalog item
Ledgers == [Places -> {EmptyRow} \cup { OccupiedRow(i) : i \in Items }]

NoLocal ==
  [ orderData |-> NoRequest, total_amount |-> 0, orderId |-> 0, line |-> 0,
    available |-> 0, compartmentsToUpdate |-> << >>, k |-> 0, error |-> << >> ]

NoTxn ==
  [ active |-> FALSE, readView |-> << >>, Orders |-> {}, OrderItems |-> {},
    Transactions |-> {}, emptied |-> {} ]

NoResult == [returned |-> "nothing"]

\* no request body
NoBody == [customer |-> FALSE, items |-> << >>, total_amount |-> << >>,
           order_status |-> Undefined]

\* no createMultipleTransactions call in progress
NoBatch == [stage |-> "idle", transactions |-> << >>, k |-> 0, rows |-> {}]

\* no createMultipleTransactions call is running: none was made, or the last
\* one has returned its results or thrown
BatchOver == batch.stage \in {"idle", "returned", "thrown"}

\* no notification in progress
NoNotification == [stage |-> "idle"]

\* no apiFetch call in progress.  r: the retries the caller passed; retries:
\* the argument of the invocation at hand; attempts: the fetch calls made;
\* last and body: how the last fetch ended and the text of its response;
\* value: what the call returned
NoFetch ==
  [ stage |-> "idle", r |-> 0, retries |-> 0, attempts |-> 0, oks |-> 0,
    last |-> "none", body |-> "", value |-> "none" ]

\* no PATCH request answered yet
NoResponse == [status |-> 0]

\* the callers that take a connection from the pool: the createOrder calls
\* and the createMultipleTransactions call
Callers == Calls \cup {"batch"}

\* a caller that has taken no connection.  held: it has a connection it has
\* not released; issued: its calls of connection.commit() and
\* connection.rollback(); ended: those of them that ended its open
\* transaction; released: its calls of connection.release(); pooledOpen: the
\* connection went back to the pool with the transaction open
NoConnection ==
  [ held |-> FALSE, issued |-> 0, ended |-> 0, released |-> 0, pooledOpen |-> FALSE ]

\* the ledgers of a fully stocked rack
StockedLedgers == [Places -> { OccupiedRow(i) : i \in Items }]

\* the backend before the first request, with the ledger one of `ledgers'
InitOrders(ledgers) ==
  /\ SubCompartments \in ledgers
  /\ Orders = {}
  /\ OrderItems = {}
  /\ Transactions = {}
  /\ autoInc = [Orders |-> 1, OrderItems |-> 1, Transactions |-> 1]
  /\ rowLock = [p \in Places |-> NoCall]
  /\ isolation \in {"READ COMMITTED", "REPEATABLE READ"}
  /\ pc = [c \in Calls |-> "idle"]
  /\ local = [c \in Calls |-> NoLocal]
  /\ txn = [c \in Calls |-> NoTxn]
  /\ result = [c \in Calls |-> NoResult]
  /\ before = [c \in Calls |-> << >>]
  /\ req = [c \in Calls |-> NoBody]
  /\ aryan = NoNotification
  /\ batch = NoBatch
  /\ conn = [k \in Callers |-> NoConnection]
  /\ res = NoResponse
  /\ fetcher = NoFetch

\* no order submission in progress.  version: which of the two scripts of
\* app.js handles it; posted: how POST /orders ended; line: the cart line
\* processOrderItem is at; retrieved: the retrieve-product requests issued;
\* cart: the cart when the form was submitted
NoSubmission ==
  [ stage |-> "idle", version |-> 0, posted |-> "none", line |-> 0,
    retrieved |-> 0, cart |-> << >> ]

\* the products the storefront lists: the three items of the Items table
Listing == {1, 2, 3}

\* the storefront before its product list is loaded
InitStorefront ==
  /\ products = [i \in Listing |-> 0]
  /\ cart = << >>
  /\ submission = NoSubmission

\* the state before the first request, with the ledger one of `ledgers', on a
\* server with the default sql_mode
InitWith(ledgers) ==
  /\ InitOrders(ledgers)
  /\ sqlMode = "STRICT_TRANS_TABLES"
  /\ InitStorefront

Init == InitWith(Ledgers)

InitStocked == InitWith(StockedLedgers)

\* ------------------------------------------------------------ storage reads
\* mutant: a SELECT that does not see the uncommitted writes of its own
\* transaction
ViewWithoutOwnWrites(c) ==
  IF isolation = "REPEATABLE READ" /\ txn[c].readView # << >>
  THEN txn[c].readView[1]
  ELSE SubCompartments

\* what a SELECT of call c reads from SubCompartments
View(c) ==
  LET base == IF isolation = "REPEATABLE READ" /\ txn[c].readView # << >>
              THEN txn[c].readView[1]
              ELSE SubCompartments
  IN  [p \in Places |-> IF p \in txn[c].emptied THEN SetEmpty(base[p]) ELSE base[p]]

\* the read view a SELECT of call c leaves behind
ReadViewAfterSelect(c) ==
  IF isolation = "REPEATABLE READ" /\ txn[c].readView = << >>
  THEN << SubCompartments >>
  ELSE txn[c].readView

\* WHERE sc.item_id = ? AND sc.status = 'Occupied'
OccupiedBy(ledger, item) ==
  { p \in Places : ledger[p].item_id = item /\ ledger[p].status = "Occupied" }

\* mutant: SELECT COUNT(*) - 1 as available_count
CountOccupiedButOne(ledger, item) == Cardinality(OccupiedBy(ledger, item)) - 1

\* SELECT COUNT(*) ... WHERE sc.item_id = ? AND sc.status = 'Occupied'
CountOccupied(ledger, item) == Cardinality(OccupiedBy(ledger, item))

BoxOf(p) ==
  The({ b \in Boxes : b.box_id = The({ t \in Topology : t.subcom_place = p }).box_id })

SubIdOf(p) == The({ t \in Topology : t.subcom_place = p }).sub_id

\* mutant: ORDER BY b.`row_number`, b.column_name, sc.sub_id
OrderByRowFirst(p, q) ==
  \/ BoxOf(p).row_number < BoxOf(q).row_number
  \/ /\ BoxOf(p).row_number = BoxOf(q).row_number
     /\ BoxOf(p).column_name < BoxOf(q).column_name
  \/ /\ BoxOf(p).row_number = BoxOf(q).row_number
     /\ BoxOf(p).column_name = BoxOf(q).column_name
     /\ SubIdOf(p) < SubIdOf(q)

\* ORDER BY b.column_name, b.`row_number`, sc.sub_id : p sorts before q
OrderByBefore(p, q) ==
  \/ BoxOf(p).column_name < BoxOf(q).column_name
  \/ /\ BoxOf(p).column_name = BoxOf(q).column_name
     /\ BoxOf(p).row_number < BoxOf(q).row_number
  \/ /\ BoxOf(p).column_name = BoxOf(q).column_name
     /\ BoxOf(p).row_number = BoxOf(q).row_number
     /\ SubIdOf(p) < SubIdOf(q)

RECURSIVE Sorted(_)
Sorted(S) ==
  IF S = {} THEN << >>
  ELSE LET first == The({ p \in S : \A q \in S \ {p} : OrderByBefore(p, q) })
       IN  << first >> \o Sorted(S \ {first})

\* mutant: LIMIT ? + 1
LimitOneMore(s, n) == SubSeq(s, 1, Min(n + 1, Len(s)))

\* LIMIT ?
Limit(s, n) == SubSeq(s, 1, Min(n, Len(s)))

\* mutant: the selection reads the committed ledger, without the releases of
\* the earlier lines of the call
SelectFromCommitted(ledger, item, count) ==
  Limit(Sorted(OccupiedBy(SubCompartments, item)), count)

\* SELECT sc.subcom_place ... ORDER BY ... LIMIT ?
SelectOccupiedForRelease(ledger, item, count) ==
  Limit(Sorted(OccupiedBy(ledger, item)), count)

\* ------------------------------------------------------------- createOrder
\* mutant: the reduce of line 14 adds item.price, not item.price * item.quantity
TotalOfPrices(orderData) ==
  IF orderData.total_amount \in {<< >>, << 0 >>}
  THEN SumSeq([n \in 1..Len(orderData.items) |-> orderData.items[n].price])
  ELSE orderData.total_amount[1]

\* mutant: the total is always computed from the lines
TotalAlwaysComputed(orderData) ==
  SumSeq([n \in 1..Len(orderData.items) |->
            orderData.items[n].price * orderData.items[n].quantity])

\* total_amount as lines 12-15 compute it
TotalAmount(orderData) ==
  IF orderData.total_amount \in {<< >>, << 0 >>}
  THEN SumSeq([n \in 1..Len(orderData.items) |->
                 orderData.items[n].price * orderData.items[n].quantity])
  ELSE orderData.total_amount[1]

\* orderData.order_status || 'pending'
OrderStatus(orderData) ==
  IF orderData.order_status = Undefined THEN "pending" ELSE orderData.order_status

\* the values of the column Orders.order_status
OrderStatuses == {"pending", "processing", "shipped", "delivered", "cancelled"}

\* what the enum column stores for a value: the value if it is one of the
\* enumeration, the error value '' otherwise (without strict sql_mode; with
\* it the statement is rejected)
EnumValue(status) == IF status \in OrderStatuses THEN status ELSE ""

\* the sql_mode settings a server can run with, as far as the enum goes
SqlModes == {"STRICT_TRANS_TABLES", "NO_ENGINE_SUBSTITUTION"}

InFlight(c) == pc[c] \notin {"idle", "returned", "responded"}

\* lines 5-15: take a connection, begin the transaction, compute the total
CreateOrder(c, orderData) ==
  /\ pc[c] \in {"idle", "controller"}
  /\ pc' = [pc EXCEPT ![c] = "insertOrder"]
  /\ local' = [local EXCEPT ![c] =
       [NoLocal EXCEPT !.orderData = orderData,
                       !.total_amount = TotalAmount(orderData)]]
  /\ txn' = [txn EXCEPT ![c] = [NoTxn EXCEPT !.active = TRUE]]
  /\ before' = [before EXCEPT ![c] = << Committed >>]
  /\ conn' = [conn EXCEPT ![c] = [NoConnection EXCEPT !.held = TRUE]]
  /\ UNCHANGED << tables, autoInc, rowLock, isolation, result >>
  /\ UNCHANGED << res, fetcher >>

\* the error a rejected query throws into the catch block of line 111, where
\* the variables declared in the try block are out of scope
Throw(c, message) ==
  /\ pc' = [pc EXCEPT ![c] = "catch"]
  /\ local' = [local EXCEPT ![c] =
       [NoLocal EXCEPT !.orderData = local[c].orderData, !.error = message]]

\* lines 17-31: INSERT INTO Orders
InsertOrder(c) ==
  /\ pc[c] = "insertOrder"
  /\ LET status == OrderStatus(local[c].orderData)
         row == [ order_id |-> autoInc.Orders,
                  total_amount |-> local[c].total_amount,
                  order_status |-> EnumValue(status) ]
     IN  IF status \notin OrderStatuses /\ sqlMode = "STRICT_TRANS_TABLES"
         THEN /\ Throw(c, << "Data truncated for column 'order_status'" >>)
              /\ UNCHANGED << txn, autoInc >>
         ELSE /\ txn' = [txn EXCEPT ![c].Orders = @ \cup {row}]
              /\ autoInc' = [autoInc EXCEPT !.Orders = @ + 1]
              /\ local' = [local EXCEPT ![c].orderId = autoInc.Orders]
              /\ pc' = [pc EXCEPT ![c] =
                   IF Len(local[c].orderData.items) > 0
                   THEN "insertOrderItems" ELSE "commit"]
  /\ UNCHANGED << tables, rowLock, isolation, result, before >>
  /\ UNCHANGED << conn, res, fetcher >>

\* mutant: OrderItems.item_id without its foreign key into Items
InsertOrderItemsUnchecked(c) ==
  /\ pc[c] = "insertOrderItems"
  /\ LET items == local[c].orderData.items
         rows == { [ order_item_id |-> autoInc.OrderItems + n - 1,
                     order_id |-> local[c].orderId,
                     item_id |-> items[n].item_id,
                     quantity |-> items[n].quantity,
                     unit_price |-> items[n].price,
                     total_price |-> items[n].quantity * items[n].price ]
                   : n \in 1..Len(items) }
     IN  /\ txn' = [txn EXCEPT ![c].OrderItems = @ \cup rows]
         /\ autoInc' = [autoInc EXCEPT !.OrderItems = @ + Len(items)]
         /\ pc' = [pc EXCEPT ![c] = "count"]
         /\ local' = [local EXCEPT ![c].line = 1]
  /\ UNCHANGED << tables, rowLock, isolation, result, before >>
  /\ UNCHANGED << conn, res, fetcher >>

\* lines 34-47: INSERT INTO OrderItems, one row per line; item_id is a
\* foreign key into Items
InsertOrderItems(c) ==
  /\ pc[c] = "insertOrderItems"
  /\ LET items == local[c].orderData.items
         rows == { [ order_item_id |-> autoInc.OrderItems + n - 1,
                     order_id |-> local[c].orderId,
                     item_id |-> items[n].item_id,
                     quantity |-> items[n].quantity,
                     unit_price |-> items[n].price,
                     total_price |-> items[n].quantity * items[n].price ]
                   : n \in 1..Len(items) }
     IN  IF \A n \in 1..Len(items) : items[n].item_id \in Items
         THEN /\ txn' = [txn EXCEPT ![c].OrderItems = @ \cup rows]
              /\ autoInc' = [autoInc EXCEPT !.OrderItems = @ + Len(items)]
              /\ pc' = [pc EXCEPT ![c] = "count"]
              /\ local' = [local EXCEPT ![c].line = 1]
         ELSE /\ Throw(c, << "foreign key constraint fails" >>)
              /\ UNCHANGED << txn, autoInc >>
  /\ UNCHANGED << tables, rowLock, isolation, result, before >>
  /\ UNCHANGED << conn, res, fetcher >>

\* the line the loop of line 50 is at
Item(c) == local[c].orderData.items[local[c].line]

\* mutant: if (available <= item.quantity)
InsufficientOrEqual(available, quantity) == available <= quantity

\* line 60: if (available < item.quantity)
Insufficient(available, quantity) == available < quantity

\* lines 52-62: count the Occupied compartments of the line's item and
\* compare with the quantity
CountAvailable(c) ==
  /\ pc[c] = "count"
  /\ LET available == CountOccupied(View(c), Item(c).item_id)
     IN  IF Insufficient(available, Item(c).quantity)
         THEN Throw(c, << "Insufficient inventory", Item(c).item_id,
                          available, Item(c).quantity >>)
         ELSE /\ pc' = [pc EXCEPT ![c] = "select"]
              /\ local' = [local EXCEPT ![c].available = available]
  /\ txn' = [txn EXCEPT ![c].readView = ReadViewAfterSelect(c)]
  /\ UNCHANGED << tables, autoInc, rowLock, isolation, result, before >>
  /\ UNCHANGED << conn, res, fetcher >>

\* where the loops of lines 50 and 76 go after compartment k of the line
AfterCompartment(c, k, n) ==
  IF k < n THEN "update"
  ELSE IF local[c].line < Len(local[c].orderData.items) THEN "count"
  ELSE "commit"

\* lines 66-73: select the compartments to empty
SelectCompartments(c) ==
  /\ pc[c] = "select"
  /\ LET rows == SelectOccupiedForRelease(View(c), Item(c).item_id, Item(c).quantity)
         next == AfterCompartment(c, 0, Len(rows))
     IN  /\ pc' = [pc EXCEPT ![c] = next]
         /\ local' = [local EXCEPT
              ![c].compartmentsToUpdate = rows,
              ![c].k = 1,
              ![c].line = IF next = "count" THEN @ + 1 ELSE @]
  /\ txn' = [txn EXCEPT ![c].readView = ReadViewAfterSelect(c)]
  /\ UNCHANGED << tables, autoInc, rowLock, isolation, result, before >>
  /\ UNCHANGED << conn, res, fetcher >>

\* the compartment the loop of line 76 is at
Compartment(c) == local[c].compartmentsToUpdate[local[c].k]

\* mutant: the UPDATE is sent through the pool (db.query), outside the
\* transaction of the call, and is committed at once
UpdateCompartmentOnPool(c) ==
  /\ pc[c] = "update"
  /\ rowLock[Compartment(c)] \in {NoCall, c}
  /\ SubCompartments' = [SubCompartments EXCEPT ![Compartment(c)] = SetEmpty(@)]
  /\ pc' = [pc EXCEPT ![c] = "insertTransaction"]
  /\ UNCHANGED << Orders, OrderItems, Transactions, autoInc, rowLock, isolation,
                  local, txn, result, before >>
  /\ UNCHANGED << conn, res, fetcher >>

\* mutant: the UPDATE without its WHERE clause
UpdateEveryCompartment(c) ==
  /\ pc[c] = "update"
  /\ \A p \in Places : rowLock[p] \in {NoCall, c}
  /\ rowLock' = [p \in Places |-> c]
  /\ txn' = [txn EXCEPT ![c].emptied = Places]
  /\ pc' = [pc EXCEPT ![c] = "insertTransaction"]
  /\ UNCHANGED << tables, autoInc, isolation, local, result, before >>
  /\ UNCHANGED << conn, res, fetcher >>

\* lines 78-82: UPDATE SubCompartments SET status = 'Empty', item_id = NULL
\* WHERE subcom_place = ?  (waits while another transaction holds the row)
UpdateCompartment(c) ==
  /\ pc[c] = "update"
  /\ rowLock[Compartment(c)] \in {NoCall, c}
  /\ rowLock' = [rowLock EXCEPT ![Compartment(c)] = c]
  /\ txn' = [txn EXCEPT ![c].emptied = @ \cup {Compartment(c)}]
  /\ pc' = [pc EXCEPT ![c] = "insertTransaction"]
  /\ UNCHANGED << tables, autoInc, isolation, local, result, before >>
  /\ UNCHANGED << conn, res, fetcher >>

\* lines 85-88: INSERT INTO Transactions (item_id, subcom_place, 'ordered')
InsertTransaction(c) ==
  /\ pc[c] = "insertTransaction"
  /\ LET row == [ tran_id |-> autoInc.Transactions,
                  item_id |-> Item(c).item_id,
                  subcom_place |-> Compartment(c),
                  action |-> "ordered" ]
         next == AfterCompartment(c, local[c].k, Len(local[c].compartmentsToUpdate))
     IN  /\ txn' = [txn EXCEPT ![c].Transactions = @ \cup {row}]
         /\ pc' = [pc EXCEPT ![c] = next]
         /\ local' = [local EXCEPT
              ![c].k = IF next = "update" THEN @ + 1 ELSE @,
              ![c].line = IF next = "count" THEN @ + 1 ELSE @]
  /\ autoInc' = [autoInc EXCEPT !.Transactions = @ + 1]
  /\ UNCHANGED << tables, rowLock, isolation, result, before >>
  /\ UNCHANGED << conn, res, fetcher >>

\* the row locks after the transaction of call c ended
Unlocked(c) == [p \in Places |-> IF rowLock[p] = c THEN NoCall ELSE rowLock[p]]

\* line 93: COMMIT
Commit(c) ==
  /\ pc[c] = "commit"
  /\ SubCompartments' =
       [p \in Places |->
          IF p \in txn[c].emptied THEN SetEmpty(SubCompartments[p]) ELSE SubCompartments[p]]
  /\ Orders' = Orders \cup txn[c].Orders
  /\ OrderItems' = OrderItems \cup txn[c].OrderItems
  /\ Transactions' = Transactions \cup txn[c].Transactions
  /\ rowLock' = Unlocked(c)
  /\ txn' = [txn EXCEPT ![c] = NoTxn]
  /\ pc' = [pc EXCEPT ![c] = "fetch"]
  /\ conn' = [conn EXCEPT ![c].issued = @ + 1, ![c].ended = @ + 1]
  /\ UNCHANGED << autoInc, isolation, local, result, before >>
  /\ UNCHANGED << res, fetcher >>

\* lines 96-110: read the order back, with the summary of its lines
FetchOrder(c) ==
  /\ pc[c] = "fetch"
  /\ LET orders == { o \in Orders : o.order_id = local[c].orderId }
         summary == { << oi.order_item_id, oi.quantity, oi.item_id >> :
                        oi \in { r \in OrderItems : r.order_id = local[c].orderId } }
     IN  result' = [result EXCEPT ![c] =
           [ returned |-> "order", order |-> The(orders), items_summary |-> summary ]]
  /\ pc' = [pc EXCEPT ![c] = "finally"]
  /\ UNCHANGED << tables, autoInc, rowLock, isolation, local, txn, before >>
  /\ UNCHANGED << conn, res, fetcher >>

\* a query of lines 18-108 is rejected by the storage layer (lost connection,
\* lock wait timeout, deadlock victim)
QueryFails(c) ==
  /\ pc[c] \in { "insertOrder", "insertOrderItems", "count", "select", "update",
                 "insertTransaction", "fetch" }
  /\ Throw(c, << "storage error" >>)
  /\ UNCHANGED << tables, autoInc, rowLock, isolation, txn, result, before >>
  /\ UNCHANGED << conn, res, fetcher >>

\* mutant: a storage layer without lock wait timeout and deadlock detection;
\* the UPDATE goes on waiting
LockWaitForever(c) ==
  /\ pc[c] = "update"
  /\ rowLock[Compartment(c)] \notin {NoCall, c}
  /\ UNCHANGED << tables, autoInc, rowLock, isolation, txn, result, before,
                  pc, local >>
  /\ UNCHANGED << conn, res, fetcher >>

\* the UPDATE of lines 78-82 waits for a row that another transaction holds,
\* until the storage layer rejects it (lock wait timeout, deadlock victim)
LockWaitTimeout(c) ==
  /\ pc[c] = "update"
  /\ rowLock[Compartment(c)] \notin {NoCall, c}
  /\ Throw(c, << "storage error" >>)
  /\ UNCHANGED << tables, autoInc, rowLock, isolation, txn, result, before >>
  /\ UNCHANGED << conn, res, fetcher >>

\* lines 111-113: ROLLBACK, then throw 'Error creating order: ' + message
Rollback(c) ==
  /\ pc[c] = "catch"
  /\ rowLock' = Unlocked(c)
  /\ txn' = [txn EXCEPT ![c] = NoTxn]
  /\ result' = [result EXCEPT ![c] =
       [ returned |-> "error",
         message |-> << "Error creating order" >> \o local[c].error ]]
  /\ pc' = [pc EXCEPT ![c] = "finally"]
  /\ conn' = [conn EXCEPT ![c].issued = @ + 1,
                          ![c].ended = IF txn[c].active THEN @ + 1 ELSE @]
  /\ UNCHANGED << tables, autoInc, isolation, local, before >>
  /\ UNCHANGED << res, fetcher >>

\* line 93: connection.commit() is rejected; the transaction is still open
\* and the catch block of line 111 follows
CommitFails(c) ==
  /\ pc[c] = "commit"
  /\ Throw(c, << "storage error" >>)
  /\ conn' = [conn EXCEPT ![c].issued = @ + 1]
  /\ UNCHANGED << tables, autoInc, rowLock, isolation, txn, result, before >>
  /\ UNCHANGED << res, fetcher >>

\* line 112: connection.rollback() is rejected and its error leaves the
\* catch block in place of the one of line 113.  Either the connection is
\* lost (the server discards the transaction, the pool drops the connection)
\* or it is still usable and its transaction is still open
RollbackFails(c, lost) ==
  /\ pc[c] = "catch"
  /\ rowLock' = IF lost THEN Unlocked(c) ELSE rowLock
  /\ txn' = IF lost THEN [txn EXCEPT ![c] = NoTxn] ELSE txn
  /\ result' = [result EXCEPT ![c] =
       [ returned |-> "error", message |-> << "storage error" >> ]]
  /\ pc' = [pc EXCEPT ![c] = "finally"]
  /\ conn' = [conn EXCEPT ![c].issued = @ + 1,
                          ![c].held = IF lost THEN FALSE ELSE @]
  /\ UNCHANGED << tables, autoInc, isolation, local, before >>
  /\ UNCHANGED << res, fetcher >>

\* lines 114-116: connection.release(); the call returns or throws
Release(c) ==
  /\ pc[c] = "finally"
  /\ pc' = [pc EXCEPT ![c] = "returned"]
  /\ local' = [local EXCEPT ![c] = NoLocal]
  /\ before' = [before EXCEPT ![c] = << >>]
  /\ conn' = [conn EXCEPT ![c].held = FALSE,
                          ![c].released = @ + 1,
                          ![c].pooledOpen = conn[c].held /\ txn[c].active]
  /\ UNCHANGED << tables, autoInc, rowLock, isolation, txn, result >>
  /\ UNCHANGED << res, fetcher >>

\* OrderController.createOrder, lines 52-66: what the HTTP caller receives
ControllerResponse(r) ==
  IF r.returned = "order"
  THEN [ status |-> 201, success |-> TRUE, data |-> r.order ]
  ELSE [ status |-> 500, success |-> FALSE, error |-> "Server Error",
         message |-> r.message ]

\* ------------------------------------------------------- the HTTP request
\* A JSON value of a request field is written << n >> for the number n and
\* << >> for a field that is absent.

\* !v is false
Truthy(v) == v # << >> /\ v[1] # 0

\* v <= 0 (undefined converts to NaN, which compares false)
LessOrEqualZero(v) == v # << >> /\ v[1] <= 0

\* express-validator: notEmpty()
notEmpty(v) == v # << >>

\* express-validator: isInt({ gt: 0 }), isFloat({ gt: 0 })
isGreaterThanZero(v) == v # << >> /\ v[1] > 0

\* routes/orderRoutes.js, validateOrder: the fields with an error
validateOrder(body) ==
  (IF body.customer THEN {} ELSE {"customer"})
    \cup (IF Len(body.items) >= 1 THEN {} ELSE {"items"})
    \cup (IF \A n \in 1..Len(body.items) : notEmpty(body.items[n].item_id)
          THEN {} ELSE {"items.*.item_id"})
    \cup (IF \A n \in 1..Len(body.items) : isGreaterThanZero(body.items[n].quantity)
          THEN {} ELSE {"items.*.quantity"})
    \cup (IF \A n \in 1..Len(body.items) : isGreaterThanZero(body.items[n].price)
          THEN {} ELSE {"items.*.price"})

\* mutant: the test of line 34 without its comparisons with 0
InvalidItemUnlessFalsy(item) ==
  ~Truthy(item.item_id) \/ ~Truthy(item.quantity) \/ ~Truthy(item.price)

\* OrderController.createOrder, line 34
InvalidItem(item) ==
  \/ ~Truthy(item.item_id) \/ ~Truthy(item.quantity) \/ ~Truthy(item.price)
  \/ LessOrEqualZero(item.quantity) \/ LessOrEqualZero(item.price)

\* OrderController.createOrder, lines 42-50: orderData of a valid body
OrderData(body) ==
  [ items |-> [ n \in 1..Len(body.items) |->
                  [ item_id |-> body.items[n].item_id[1],
                    quantity |-> body.items[n].quantity[1],
                    price |-> body.items[n].price[1] ] ],
    total_amount |-> body.total_amount,
    order_status |-> IF body.order_status = Undefined
                     THEN "pending" ELSE body.order_status ]

\* the answer to a request that is not served
Reject(c, status, error) ==
  /\ result' = [result EXCEPT ![c] =
       [ returned |-> "rejected", status |-> status, error |-> error ]]
  /\ pc' = [pc EXCEPT ![c] = "responded"]
  /\ UNCHANGED << tables, autoInc, rowLock, isolation, local, txn, before >>
  /\ UNCHANGED << conn, res, fetcher >>

\* POST /api/orders arrives at the router: with validateOrder
\* (router.post('/', validateOrder, ..., OrderController.createOrder)) or
\* without (router.post('/', OrderController.createOrder))
Post(c, body, route) ==
  /\ pc[c] = "idle"
  /\ req' = [req EXCEPT ![c] = body]
  /\ pc' = [pc EXCEPT ![c] = route]
  /\ before' = [before EXCEPT ![c] = << Committed >>]
  /\ UNCHANGED << tables, autoInc, rowLock, isolation, local, txn, result >>
  /\ UNCHANGED << conn, res, fetcher >>

\* the middleware after validateOrder: 400 with the errors, or next()
ValidationResult(c) ==
  /\ pc[c] = "validateOrder"
  /\ IF validateOrder(req[c]) # {}
     THEN Reject(c, 400, validateOrder(req[c]))
     ELSE /\ pc' = [pc EXCEPT ![c] = "controller"]
          /\ UNCHANGED << tables, autoInc, rowLock, isolation, local, txn,
                          result, before >>
  /\ UNCHANGED req
  /\ UNCHANGED << conn, res, fetcher >>

\* OrderController.createOrder, lines 7-52: validate, then call the model
ControllerCreateOrder(c) ==
  /\ pc[c] = "controller"
  /\ IF ~req[c].customer
     THEN Reject(c, 400, {"Please provide all required customer information"})
     ELSE IF Len(req[c].items) = 0
     THEN Reject(c, 400, {"Please provide order items"})
     ELSE IF \E n \in 1..Len(req[c].items) : InvalidItem(req[c].items[n])
     THEN Reject(c, 400, {"Invalid item data"})
     ELSE CreateOrder(c, OrderData(req[c]))
  /\ UNCHANGED req

\* mutant: UPDATE Orders SET order_status = ? without its WHERE clause
UpdateEveryOrderStatus(orderId, status) ==
  /\ IF status \in {Undefined, ""} \/ status \notin OrderStatuses
     THEN res' = [status |-> 400] /\ UNCHANGED Orders
     ELSE IF \A o \in Orders : o.order_id # orderId
     THEN res' = [status |-> 404] /\ UNCHANGED Orders
     ELSE /\ Orders' = { [o EXCEPT !.order_status = EnumValue(status)] : o \in Orders }
          /\ res' = [status |-> 200]
  /\ UNCHANGED << SubCompartments, OrderItems, Transactions, autoInc, rowLock,
                  isolation, pc, local, txn, result, before, conn, fetcher >>

\* OrderController.updateOrderStatus, lines 118-159, and
\* OrderModel.updateOrderStatus, lines 170-181: PATCH /api/orders/:id/status.
\* 400 without a status or with one that is not in validStatuses; else the
\* UPDATE ... WHERE order_id = ? through the pool, 404 if it matched no row
UpdateOrderStatus(orderId, status) ==
  /\ IF status \in {Undefined, ""} \/ status \notin OrderStatuses
     THEN res' = [status |-> 400] /\ UNCHANGED Orders
     ELSE IF \A o \in Orders : o.order_id # orderId
     THEN res' = [status |-> 404] /\ UNCHANGED Orders
     ELSE /\ Orders' = { IF o.order_id = orderId
                         THEN [o EXCEPT !.order_status = EnumValue(status)]
                         ELSE o : o \in Orders }
          /\ res' = [status |-> 200]
  /\ UNCHANGED << SubCompartments, OrderItems, Transactions, autoInc, rowLock,
                  isolation, pc, local, txn, result, before, conn, fetcher >>

\* the values a numeric field of a request body takes
BodyValues == {<< >>} \cup { << n >> : n \in -1..1 }

\* the lines of a request body; item 4 is not in the catalog
BodyLines ==
  [ item_id : {<< >>, << 1 >>, << 4 >>}, quantity : BodyValues, price : BodyValues ]

\* the order statuses a request carries: none, one of the enumeration, another
StatusValues == {Undefined, "shipped", "bogus"}

\* the request bodies: no line, one line, or a valid line and a second one;
\* `customer' says whether the four customer fields are given and well-formed
Bodies ==
  LET valid == [item_id |-> << 1 >>, quantity |-> << 1 >>, price |-> << 1 >>]
  IN  [ customer : BOOLEAN,
        items : {<< >>} \cup { << l >> : l \in BodyLines }
                       \cup { << valid, l >> : l \in BodyLines },
        total_amount : {<< >>},
        order_status : StatusValues ]

\* ------------------------------------------------------- TransactionModel
\* the row an INSERT INTO Transactions of transaction.js writes:
\* subcom_place || 'ECOMMERCE_ORDER'
TransactionRow(transaction) ==
  [ tran_id |-> autoInc.Transactions,
    item_id |-> transaction.item_id,
    subcom_place |-> IF transaction.subcom_place = Undefined
                     THEN "ECOMMERCE_ORDER" ELSE transaction.subcom_place,
    action |-> transaction.action ]

\* the foreign keys of Transactions: item_id into Items (or NULL),
\* subcom_place into SubCompartments
ForeignKeysHold(row) ==
  /\ row.item_id = NULL \/ row.item_id \in Items
  /\ row.subcom_place \in Places

\* mutant: the INSERT reuses the identifier of the newest row
\* (REPLACE INTO ... tran_id = LAST_INSERT_ID())
CreateTransactionReplacing(transactionData) ==
  /\ autoInc.Transactions <= MaxTranId
  /\ LET row == [TransactionRow(transactionData) EXCEPT
                   !.tran_id = IF autoInc.Transactions > 1 THEN @ - 1 ELSE @]
     IN  /\ ForeignKeysHold(row)
         /\ Transactions' = { t \in Transactions : t.tran_id # row.tran_id } \cup {row}
  /\ UNCHANGED << SubCompartments, Orders, OrderItems, autoInc, rowLock, isolation,
                  pc, local, txn, result, before, batch >>
  /\ UNCHANGED << conn, res, fetcher >>

\* transaction.js lines 65-84, createTransaction: one INSERT through the
\* pool, committed at once; a rejected INSERT has used its identifier
CreateTransaction(transactionData) ==
  /\ autoInc.Transactions <= MaxTranId
  /\ LET row == TransactionRow(transactionData)
     IN  Transactions' = IF ForeignKeysHold(row)
                         THEN Transactions \cup {row} ELSE Transactions
  /\ autoInc' = [autoInc EXCEPT !.Transactions = @ + 1]
  /\ UNCHANGED << SubCompartments, Orders, OrderItems, rowLock, isolation,
                  pc, local, txn, result, before, batch >>
  /\ UNCHANGED << conn, res, fetcher >>

\* transaction.js lines 86-90, createMultipleTransactions: take a
\* connection, begin the transaction
CreateMultipleTransactions(transactions) ==
  /\ BatchOver
  /\ batch' = [ stage |-> IF Len(transactions) > 0 THEN "insert" ELSE "commit",
                transactions |-> transactions, k |-> 1, rows |-> {} ]
  /\ conn' = [conn EXCEPT !["batch"] = [NoConnection EXCEPT !.held = TRUE]]
  /\ UNCHANGED << tables, autoInc, rowLock, isolation, pc, local, txn, result, before >>
  /\ UNCHANGED << res, fetcher >>

\* mutant: the INSERT of the loop is sent through the pool (db.query),
\* outside the transaction, and is committed at once
BatchInsertOnPool ==
  /\ batch.stage = "insert"
  /\ autoInc.Transactions <= MaxTranId
  /\ LET row == TransactionRow(batch.transactions[batch.k])
     IN  /\ batch' = IF ForeignKeysHold(row)
                     THEN [batch EXCEPT
                             !.rows = @ \cup {row},
                             !.k = @ + 1,
                             !.stage = IF batch.k < Len(batch.transactions)
                                       THEN "insert" ELSE "commit"]
                     ELSE [batch EXCEPT !.stage = "catch"]
         /\ Transactions' = IF ForeignKeysHold(row)
                            THEN Transactions \cup {row} ELSE Transactions
  /\ autoInc' = [autoInc EXCEPT !.Transactions = @ + 1]
  /\ UNCHANGED << SubCompartments, Orders, OrderItems, rowLock, isolation, pc, local,
                  txn, result, before, conn, res, fetcher >>

\* lines 93-107: the INSERT of the loop
BatchInsert ==
  /\ batch.stage = "insert"
  /\ autoInc.Transactions <= MaxTranId
  /\ LET row == TransactionRow(batch.transactions[batch.k])
     IN  batch' = IF ForeignKeysHold(row)
                  THEN [batch EXCEPT
                          !.rows = @ \cup {row},
                          !.k = @ + 1,
                          !.stage = IF batch.k < Len(batch.transactions)
                                    THEN "insert" ELSE "commit"]
                  ELSE [batch EXCEPT !.stage = "catch"]
  /\ autoInc' = [autoInc EXCEPT !.Transactions = @ + 1]
  /\ UNCHANGED << tables, rowLock, isolation, pc, local, txn, result, before >>
  /\ UNCHANGED << conn, res, fetcher >>

\* lines 109-110 and 114-116: COMMIT, release, return results (the rows)
BatchCommit ==
  /\ batch.stage = "commit"
  /\ Transactions' = Transactions \cup batch.rows
  /\ batch' = [NoBatch EXCEPT !.stage = "returned", !.rows = batch.rows]
  /\ conn' = [conn EXCEPT !["batch"] =
       [ held |-> FALSE, issued |-> @.issued + 1, ended |-> @.ended + 1,
         released |-> @.released + 1, pooledOpen |-> FALSE ]]
  /\ UNCHANGED << SubCompartments, Orders, OrderItems, autoInc, rowLock, isolation,
                  pc, local, txn, result, before >>
  /\ UNCHANGED << res, fetcher >>

\* lines 111-116: ROLLBACK, release, throw (k: the INSERT that was rejected)
BatchRollback ==
  /\ batch.stage = "catch"
  /\ batch' = [NoBatch EXCEPT !.stage = "thrown", !.k = batch.k]
  /\ conn' = [conn EXCEPT !["batch"] =
       [ held |-> FALSE, issued |-> @.issued + 1, ended |-> @.ended + 1,
         released |-> @.released + 1, pooledOpen |-> FALSE ]]
  /\ UNCHANGED << tables, autoInc, rowLock, isolation, pc, local, txn, result, before >>
  /\ UNCHANGED << res, fetcher >>

\* line 109: connection.commit() is rejected; the catch block follows
BatchCommitFails ==
  /\ batch.stage = "commit"
  /\ batch' = [batch EXCEPT !.stage = "catch"]
  /\ conn' = [conn EXCEPT !["batch"].issued = @ + 1]
  /\ UNCHANGED << tables, autoInc, rowLock, isolation, pc, local, txn, result, before >>
  /\ UNCHANGED << res, fetcher >>

\* lines 111-116: connection.rollback() is rejected, release, throw the
\* error of the rollback; the connection is lost, or still usable with its
\* transaction open
BatchRollbackFails(lost) ==
  /\ batch.stage = "catch"
  /\ batch' = [NoBatch EXCEPT !.stage = "thrown", !.k = batch.k]
  /\ conn' = [conn EXCEPT !["batch"] =
       [ held |-> FALSE, issued |-> @.issued + 1, ended |-> @.ended,
         released |-> @.released + 1, pooledOpen |-> ~lost ]]
  /\ UNCHANGED << tables, autoInc, rowLock, isolation, pc, local, txn, result, before >>
  /\ UNCHANGED << res, fetcher >>

\* ------------------------------------------------- the corrective migration
\* the fix script: UPDATE SubCompartments SET status = 'Empty'
\* WHERE status = 'Free' AND item_id IS NULL
FixStatuses ==
  /\ SubCompartments' =
       [ p \in Places |->
           IF SubCompartments[p].status = "Free" /\ SubCompartments[p].item_id = NULL
           THEN [SubCompartments[p] EXCEPT !.status = "Empty"]
           ELSE SubCompartments[p] ]
  /\ UNCHANGED << Orders, OrderItems, Transactions, autoInc, rowLock, isolation,
                  pc, local, txn, result, before >>
  /\ UNCHANGED << conn, res, fetcher >>

\* the ledgers the column types allow: status is a varchar(10), item_id a
\* nullable reference to Items
CorruptLedgers ==
  [ Places -> [ item_id : {NULL} \cup Items,
                status : {"Empty", "Occupied", "Free"} ] ]

\* ------------------------------------------- notifying the hardware bridge
\* services/asrsNotifier.js (sendEvent) and services/asrsIntegration.js
\* (sendToAryan and the notify* functions, which build a payload and return
\* what sendToAryan returns)
Notifiers ==
  { "sendEvent", "sendToAryan", "notifyOrderPlacement", "notifyProductAdded",
    "notifyProductRetrieved" }

\* how axios.post can fail: connection refused or an error status, or no
\* answer within the timeout of the call
PostFailures == {"ECONNREFUSED", "timeout"}

\* what a notifier returns after the catch block: sendEvent returns nothing
ReturnedAfterCatch(fn) == IF fn = "sendEvent" THEN "undefined" ELSE "null"

\* a notifier is called: axios.post(...) is sent and awaited
Notify(fn) ==
  /\ aryan.stage \in {"idle", "returned"}
  /\ aryan' = [stage |-> "posting", fn |-> fn]
  /\ UNCHANGED << orderVars, fetcher, req, sqlMode, batch, storefront >>

\* the bridge answers: sendToAryan returns response.data
PostResolves ==
  /\ aryan.stage = "posting"
  /\ aryan' = [ stage |-> "returned", fn |-> aryan.fn, thrown |-> FALSE,
                console |-> "none",
                returned |-> IF aryan.fn = "sendEvent"
                             THEN "undefined" ELSE "response.data" ]
  /\ UNCHANGED << orderVars, fetcher, req, sqlMode, batch, storefront >>

\* mutant: the catch block logs the error and throws it again
PostRejectsAndThrows(reason) ==
  /\ aryan.stage = "posting"
  /\ aryan' = [ stage |-> "returned", fn |-> aryan.fn, thrown |-> TRUE,
                console |-> reason, returned |-> "nothing" ]
  /\ UNCHANGED << orderVars, fetcher, req, sqlMode, batch, storefront >>

\* axios.post rejects: the catch block logs the error with console.error and
\* the function returns (sendToAryan: null)
PostRejects(reason) ==
  /\ aryan.stage = "posting"
  /\ aryan' = [ stage |-> "returned", fn |-> aryan.fn, thrown |-> FALSE,
                console |-> reason, returned |-> ReturnedAfterCatch(aryan.fn) ]
  /\ UNCHANGED << orderVars, fetcher, req, sqlMode, batch, storefront >>

\* ---------------------------------------------------------- the storefront
\* ecommerce/js/app.js: the cart is an array of lines {...product, quantity};
\* products maps the item_id of each listed product to its available_count

\* cart.find(item => item.item_id === productId): its index, 0 if none
Find(productId) ==
  IF \E n \in 1..Len(cart) : cart[n].item_id = productId
  THEN CHOOSE n \in 1..Len(cart) :
         /\ cart[n].item_id = productId
         /\ \A m \in 1..(n - 1) : cart[m].item_id # productId
  ELSE 0

\* products.find(p => p.item_id === productId) finds a product
Listed(productId) == productId \in DOMAIN products

\* cart.filter(item => item.item_id !== productId)
Filter(productId) ==
  LET keep(line) == line.item_id # productId IN SelectSeq(cart, keep)

\* mutant: if (existingItem.quantity > product.available_count)
addToCartOneTooMany(productId) ==
  /\ IF ~Listed(productId) \/ products[productId] = 0
     THEN UNCHANGED cart
     ELSE IF Find(productId) # 0
     THEN IF cart[Find(productId)].quantity > products[productId]
          THEN UNCHANGED cart
          ELSE cart' = [cart EXCEPT ![Find(productId)].quantity = @ + 1]
     ELSE cart' = Append(cart, [item_id |-> productId, quantity |-> 1])
  /\ UNCHANGED << orderVars, fetcher, req, sqlMode, aryan, batch, products, submission >>

\* app.js lines 306-328 and 914-939: addToCart(productId)
addToCart(productId) ==
  /\ IF ~Listed(productId) \/ products[productId] = 0
     THEN UNCHANGED cart
     ELSE IF Find(productId) # 0
     THEN IF cart[Find(productId)].quantity >= products[productId]
          THEN UNCHANGED cart
          ELSE cart' = [cart EXCEPT ![Find(productId)].quantity = @ + 1]
     ELSE cart' = Append(cart, [item_id |-> productId, quantity |-> 1])
  /\ UNCHANGED << orderVars, fetcher, req, sqlMode, aryan, batch, products, submission >>

\* app.js lines 330-334 and 994-998: removeFromCart(productId)
removeFromCart(productId) ==
  /\ cart' = Filter(productId)
  /\ UNCHANGED << orderVars, fetcher, req, sqlMode, aryan, batch, products, submission >>

\* app.js lines 336-356: updateQuantity(productId, change)
updateQuantity(productId, change) ==
  /\ IF Find(productId) = 0
     THEN UNCHANGED cart
     ELSE LET newQuantity == cart[Find(productId)].quantity + change
          IN  IF newQuantity <= 0
              THEN cart' = Filter(productId)
              ELSE IF newQuantity > products[productId]
              THEN UNCHANGED cart
              ELSE cart' = [cart EXCEPT ![Find(productId)].quantity = newQuantity]
  /\ UNCHANGED << orderVars, fetcher, req, sqlMode, aryan, batch, products, submission >>

\* app.js lines 974-992: updateCartQuantity(productId, newQuantity)
updateCartQuantity(productId, newQuantity) ==
  /\ IF newQuantity <= 0
     THEN cart' = Filter(productId)
     ELSE IF ~Listed(productId) \/ newQuantity > products[productId]
     THEN UNCHANGED cart
     ELSE IF Find(productId) # 0
     THEN cart' = [cart EXCEPT ![Find(productId)].quantity = newQuantity]
     ELSE UNCHANGED cart
  /\ UNCHANGED << orderVars, fetcher, req, sqlMode, aryan, batch, products, submission >>

\* how POST /orders ends for the page: the backend created the order, it
\* answered with an error status, or the request itself failed
PostOutcomes == {"created", "rejected", "failed"}

\* app.js lines 469-503, handleOrderSubmission of the first script: with a
\* cart that is not empty, check the quantities against the product list and
\* call createOrder
handleOrderSubmission ==
  /\ submission.stage = "idle"
  /\ cart # << >>
  /\ submission' =
       IF \E n \in 1..Len(cart) :
            ~Listed(cart[n].item_id) \/ cart[n].quantity > products[cart[n].item_id]
       THEN [NoSubmission EXCEPT !.stage = "kept", !.version = 1, !.cart = cart]
       ELSE [NoSubmission EXCEPT !.stage = "posting", !.version = 1, !.cart = cart]
  /\ UNCHANGED << orderVars, fetcher, req, sqlMode, aryan, batch, products, cart >>

\* app.js lines 538-560, createOrder of the first script: POST /orders; when
\* apiRequest throws (error status or failed request) the catch block returns
\* an order id all the same, and handleOrderSubmission goes on
storefrontCreateOrder(outcome) ==
  /\ submission.stage = "posting"
  /\ submission.version = 1
  /\ submission' =
       [submission EXCEPT !.posted = outcome, !.stage = "retrieving", !.line = 1]
  /\ UNCHANGED << orderVars, fetcher, req, sqlMode, aryan, batch, products, cart >>

\* app.js lines 506-514 and 563-603, processOrderItem for the next cart line:
\* it throws when the locations cannot be had, else it issues `requests'
\* retrieve-product requests; after the last line the cart is emptied
processOrderItem(requests, thrown) ==
  /\ submission.stage = "retrieving"
  /\ IF thrown
     THEN /\ submission' = [submission EXCEPT !.stage = "kept"]
          /\ UNCHANGED cart
     ELSE IF submission.line < Len(cart)
     THEN /\ submission' = [submission EXCEPT !.retrieved = @ + requests,
                                              !.line = @ + 1]
          /\ UNCHANGED cart
     ELSE /\ submission' = [submission EXCEPT !.retrieved = @ + requests,
                                              !.stage = "cleared"]
          /\ cart' = << >>
  /\ UNCHANGED << orderVars, fetcher, req, sqlMode, aryan, batch, products >>

\* app.js lines 1057-1081, handleOrderSubmission of the second script: POST
\* /orders with the lines of the cart
handleOrderSubmissionSimple ==
  /\ submission.stage = "idle"
  /\ submission' = [NoSubmission EXCEPT !.stage = "posting", !.version = 2, !.cart = cart]
  /\ UNCHANGED << orderVars, fetcher, req, sqlMode, aryan, batch, products, cart >>

\* app.js lines 1083-1114: the answer; the cart is emptied if result.success
orderResponse(outcome) ==
  /\ submission.stage = "posting"
  /\ submission.version = 2
  /\ IF outcome = "created"
     THEN /\ submission' = [submission EXCEPT !.posted = outcome, !.stage = "cleared"]
          /\ cart' = << >>
     ELSE /\ submission' = [submission EXCEPT !.posted = outcome, !.stage = "kept"]
          /\ UNCHANGED cart
  /\ UNCHANGED << orderVars, fetcher, req, sqlMode, aryan, batch, products >>

\* the success modal or the error message is closed
closeSuccessModal ==
  /\ submission.stage \in {"cleared", "kept"}
  /\ submission' = NoSubmission
  /\ UNCHANGED << orderVars, fetcher, req, sqlMode, aryan, batch, products, cart >>

\* the bodies a response can carry: two JSON texts, a page of HTML, nothing
ResponseBodies == {"{}", "[1]", "<html>", ""}

\* Response.json(): the value a body parses to, or the SyntaxError it is
\* rejected with
Json(body) ==
  CASE body = "{}" -> "object"
    [] body = "[1]" -> "array"
    [] OTHER -> "SyntaxError"

\* how one fetch ends: a response with res.ok, a response without, an error
FetchOutcomes == {"ok", "notok", "threw"}

\* a caller calls apiFetch(url, options, r)
CallApiFetch(r) ==
  /\ fetcher.stage \in {"idle", "returned", "thrown"}
  /\ fetcher' = [NoFetch EXCEPT !.stage = "fetching", !.r = r, !.retries = r]
  /\ UNCHANGED << orderVars, req, sqlMode, aryan, batch, storefront >>

\* api.js lines 3-16, one invocation of apiFetch with retries = fetcher.retries:
\* one fetch; an error or a response that is not ok leads to the next
\* invocation while retries > 0; else the promise of res.json() is returned,
\* not awaited, so that its rejection passes by the catch block
apiFetch(outcome, body) ==
  /\ fetcher.stage = "fetching"
  /\ LET seen == [fetcher EXCEPT !.attempts = @ + 1,
                                 !.oks = @ + (IF outcome = "ok" THEN 1 ELSE 0),
                                 !.last = outcome,
                                 !.body = IF outcome = "threw" THEN "" ELSE body]
     IN  fetcher' =
           IF outcome \in {"threw", "notok"} /\ fetcher.retries > 0
           THEN [seen EXCEPT !.retries = @ - 1]
           ELSE IF outcome = "threw" \/ Json(body) = "SyntaxError"
           THEN [seen EXCEPT !.stage = "thrown"]
           ELSE [seen EXCEPT !.stage = "returned", !.value = Json(body)]
  /\ UNCHANGED << orderVars, req, sqlMode, aryan, batch, storefront >>

\* ---------------------------------------------------------- specifications
\* a request arrives while other calls may be running
\* (the calls are interchangeable: they start in the order of their names)
PlaceOrder(c) ==
  /\ \A d \in Calls : Earlier(d, c) => pc[d] # "idle"
  /\ \E orderData \in CatalogRequests : CreateOrder(c, orderData)

Step(c) ==
  \/ InsertOrder(c)
  \/ InsertOrderItems(c)
  \/ CountAvailable(c)
  \/ SelectCompartments(c)
  \/ UpdateCompartment(c)
  \/ InsertTransaction(c)
  \/ Commit(c)
  \/ FetchOrder(c)
  \/ Rollback(c)
  \/ Release(c)

Next ==
  /\ \E c \in Calls : PlaceOrder(c) \/ Step(c) \/ LockWaitTimeout(c)
  /\ UNCHANGED << req, sqlMode, aryan, batch, storefront >>

\* concurrent calls on a fully stocked rack, on a storage layer that fails a
\* query only for a lock
Spec == InitStocked /\ [][Next]_vars

\* a request arrives while no other call is running
PlaceOrderAlone(c) ==
  /\ \A d \in Calls : Earlier(d, c) => pc[d] # "idle"
  /\ \A d \in Calls : ~InFlight(d)
  /\ \E orderData \in PlainRequests : CreateOrder(c, orderData)

NextSerial ==
  /\ \E c \in Calls : PlaceOrderAlone(c) \/ Step(c) \/ QueryFails(c)
  /\ UNCHANGED << req, sqlMode, aryan, batch, storefront >>

\* calls one after the other, on a storage layer that may fail any query
SpecSerial == Init /\ [][NextSerial]_vars

\* a single request with any prices and an explicit total or none
PlaceOrderPriced(c) ==
  /\ \A d \in Calls : pc[d] = "idle"
  /\ \E orderData \in PricedRequests : CreateOrder(c, orderData)

NextPriced ==
  /\ \E c \in Calls : PlaceOrderPriced(c) \/ Step(c) \/ QueryFails(c)
  /\ UNCHANGED << req, sqlMode, aryan, batch, storefront >>

\* one call, with priced requests
SpecPriced == Init /\ [][NextPriced]_vars

\* the first request arrives, at the router with validateOrder or at the one
\* without
PostOrder(c) ==
  /\ \A d \in Calls : pc[d] = "idle" /\ ~Earlier(d, c)
  /\ \E body \in Bodies, route \in {"validateOrder", "controller"} :
       Post(c, body, route)

NextHttp ==
  /\ \/ \E c \in Calls :
          \/ PostOrder(c)
          \/ ValidationResult(c)
          \/ ControllerCreateOrder(c)
          \/ Step(c) /\ UNCHANGED req
     \/ \E orderId \in 1..2, status \in StatusValues :
          UpdateOrderStatus(orderId, status) /\ UNCHANGED req
  /\ UNCHANGED << sqlMode, aryan, batch, storefront >>

\* the state before the first request, on a server with any sql_mode
InitHttp ==
  /\ InitOrders(StockedLedgers)
  /\ sqlMode \in SqlModes
  /\ InitStorefront

\* one request through the router and the controller, and status updates
SpecHttp == InitHttp /\ [][NextHttp]_vars

\* the first and only order request
PlaceOrderOnce(c) ==
  /\ \A d \in Calls : pc[d] = "idle" /\ ~Earlier(d, c)
  /\ \E orderData \in CatalogRequests : CreateOrder(c, orderData)

NextNotify ==
  \/ \E fn \in Notifiers : Notify(fn)
  \/ PostResolves
  \/ \E reason \in PostFailures : PostRejects(reason)
  \/ /\ \E c \in Calls : PlaceOrderOnce(c) \/ Step(c)
     /\ UNCHANGED << req, sqlMode, aryan, batch, storefront >>

\* notifications to the bridge while an order is placed
SpecNotify == Init /\ [][NextNotify]_vars

\* no call of the backend is running
Quiet == BatchOver /\ \A c \in Calls : ~InFlight(c)

\* the audit entries the callers of TransactionModel pass: of a catalog item
\* or of item 4, which is not in the catalog; in a compartment or without one
TransactionData ==
  [ item_id : {1, 4}, subcom_place : {"A1b", Undefined}, action : {"added"} ]

\* the lists passed to createMultipleTransactions
TransactionLists ==
  {<< >>} \cup { << t >> : t \in TransactionData }
         \cup { << t, u >> : t, u \in TransactionData }

NextAudit ==
  /\ \/ Quiet /\ UNCHANGED batch /\ \E c \in Calls : PlaceOrderOnce(c)
     \/ UNCHANGED batch /\ \E c \in Calls : Step(c)
     \/ Quiet /\ \E transactionData \in TransactionData :
                   CreateTransaction(transactionData)
     \/ Quiet /\ \E transactions \in TransactionLists :
                   CreateMultipleTransactions(transactions)
     \/ BatchInsert
     \/ BatchCommit
     \/ BatchRollback
  /\ UNCHANGED << req, sqlMode, aryan, storefront >>

\* calls of createOrder, createTransaction and createMultipleTransactions,
\* one after the other
SpecAudit == InitStocked /\ [][NextAudit]_vars

\* the rack with item 1 in A1b and A2a and item 2 in B1a
FairLedgers ==
  { ledger \in StockedLedgers :
      /\ ledger["A1b"].item_id = 1
      /\ ledger["A2a"].item_id = 1
      /\ ledger["B1a"].item_id = 2 }

\* requests that meet on the same items: for one unit of item 2, and for one
\* unit each of items 1 and 2 in either order
ContendingRequests ==
  { orderData \in CatalogRequests :
      /\ \E n \in 1..Len(orderData.items) : orderData.items[n].item_id = 2
      /\ \A n \in 1..Len(orderData.items) : orderData.items[n].quantity = 1
      /\ \A m, n \in 1..Len(orderData.items) :
           m # n => orderData.items[m].item_id # orderData.items[n].item_id }

\* a request arrives while other calls may be running
PlaceContendingOrder(c) ==
  /\ \A d \in Calls : Earlier(d, c) => pc[d] # "idle"
  /\ \E orderData \in ContendingRequests : CreateOrder(c, orderData)

\* the next step of call c: the storage layer answers its query
Proceed(c) ==
  /\ Step(c) \/ LockWaitTimeout(c)
  /\ UNCHANGED << req, sqlMode, aryan, batch, storefront >>

NextFair == \E c \in Calls :
  \/ PlaceContendingOrder(c) /\ UNCHANGED << req, sqlMode, aryan, batch, storefront >>
  \/ Proceed(c)

\* concurrent calls on a storage layer that answers every query in the end
SpecFair ==
  /\ InitWith(FairLedgers)
  /\ [][NextFair]_vars
  /\ \A c \in Calls : WF_vars(Proceed(c))

NextRepair ==
  /\ FixStatuses
  /\ UNCHANGED << req, sqlMode, aryan, batch, storefront >>

\* a ledger in any state the column types allow, no call in flight
InitRepair == InitWith(CorruptLedgers)

\* the fix script run on a ledger in any state
SpecRepair == InitRepair /\ [][NextRepair]_vars

NextPool ==
  /\ \/ Quiet /\ UNCHANGED batch /\ \E c \in Calls : PlaceOrderOnce(c)
     \/ UNCHANGED batch /\ \E c \in Calls :
          \/ Step(c)
          \/ QueryFails(c)
          \/ CommitFails(c)
          \/ \E lost \in BOOLEAN : RollbackFails(c, lost)
     \/ Quiet /\ \E transactions \in TransactionLists :
                   CreateMultipleTransactions(transactions)
     \/ BatchInsert
     \/ BatchCommit
     \/ BatchCommitFails
     \/ BatchRollback
     \/ \E lost \in BOOLEAN : BatchRollbackFails(lost)
  /\ UNCHANGED << req, sqlMode, aryan, storefront >>

\* a createOrder call and createMultipleTransactions calls, one after the
\* other, on a storage layer that may reject any query, commit or rollback
SpecPool == InitWith(FairLedgers) /\ [][NextPool]_vars

\* the order ids of the PATCH requests: of the orders of the two calls, and 3
OrderIds == {1, 2, 3}

\* the statuses of the PATCH requests: none, the empty string, one that is
\* not in validStatuses, and the first and the two final ones of validStatuses
PatchStatuses == {Undefined, "", "bogus", "pending", "delivered", "cancelled"}

\* a request for one unit of an item arrives while no other call is running
PlaceOrderInTurn(c) ==
  /\ \A d \in Calls : Earlier(d, c) => pc[d] # "idle"
  /\ \A d \in Calls : ~InFlight(d)
  /\ \E orderData \in CatalogRequests :
       Units(orderData.items) = 1 /\ CreateOrder(c, orderData)

NextStatus ==
  /\ \/ \E c \in Calls : PlaceOrderInTurn(c) \/ Step(c)
     \/ \E orderId \in OrderIds, status \in PatchStatuses :
          UpdateOrderStatus(orderId, status)
  /\ UNCHANGED << req, sqlMode, aryan, batch, storefront >>

\* orders placed one after the other, and status updates at any time
SpecStatus == InitWith(FairLedgers) /\ [][NextStatus]_vars

\* the product ids the page passes: of the listed products, and 4
ProductIds == Listing \cup {4}

NextCart ==
  \/ \E productId \in ProductIds : addToCart(productId)
  \/ \E productId \in ProductIds : removeFromCart(productId)
  \/ \E productId \in ProductIds, change \in (0 - MaxCount - 1)..(MaxCount + 1) :
       updateQuantity(productId, change)
  \/ \E productId \in ProductIds, newQuantity \in (0 - 1)..(MaxCount + 1) :
       updateCartQuantity(productId, newQuantity)

\* the storefront with its product list loaded and an empty cart
InitCart ==
  /\ InitOrders(FairLedgers)
  /\ sqlMode = "STRICT_TRANS_TABLES"
  /\ products \in [Listing -> 0..MaxCount]
  /\ cart = << >>
  /\ submission = NoSubmission

SpecCart == InitCart /\ [][NextCart]_vars

\* the page: the cart is edited while no submission is in progress (the
\* loading overlay covers the page during one), and submitted by either script
NextShop ==
  \/ submission.stage = "idle" /\ NextCart
  \/ handleOrderSubmission
  \/ \E outcome \in PostOutcomes : storefrontCreateOrder(outcome)
  \/ \E requests \in 1..MaxCount, thrown \in BOOLEAN : processOrderItem(requests, thrown)
  \/ handleOrderSubmissionSimple
  \/ \E outcome \in PostOutcomes : orderResponse(outcome)
  \/ closeSuccessModal

SpecShop == InitCart /\ [][NextShop]_vars

\* the most retries a caller passes (the default is 3)
MaxRetries == 3

\* calls of apiFetch, one after the other
NextFetch ==
  \/ \E r \in 0..MaxRetries : CallApiFetch(r)
  \/ \E outcome \in FetchOutcomes, body \in ResponseBodies : apiFetch(outcome, body)

SpecFetch == InitWith(FairLedgers) /\ [][NextFetch]_vars

\* ------------------------------------------------------------------ claims
\* vocabulary of the claims

\* the call has committed and read its order back
Succeeded(c) == pc[c] = "finally" /\ result[c].returned = "order"

\* the call ends with an error for its caller
Failed(c) == pc[c] = "finally" /\ result[c].returned = "error"

\* the call fails for lack of stock
FailedForStock(c) == Failed(c) /\ result[c].message[2] = "Insufficient inventory"

\* the compartments of a ledger that hold item i
Stock(ledger, i) ==
  { p \in Places : ledger[p].status = "Occupied" /\ ledger[p].item_id = i }

\* the units of item i in the first n lines of a request
RECURSIVE UnitsOf(_, _, _)
UnitsOf(items, i, n) ==
  IF n = 0 THEN 0
  ELSE UnitsOf(items, i, n - 1) +
       (IF items[n].item_id = i THEN items[n].quantity ELSE 0)

\* the audit rows committed since call c began
NewTransactions(c) == Transactions \ before[c][1].Transactions

\* the sort key (column, row, sub-slot) of a compartment
KeyOf(p) == << BoxOf(p).column_name, BoxOf(p).row_number, SubIdOf(p) >>

\* lexicographic order of two keys
KeyLess(a, b) ==
  \E j \in 1..3 : a[j] < b[j] /\ \A h \in 1..(j - 1) : a[h] = b[h]

\* C1 (conservation): when a call run on its own succeeds, every item has as
\* many Occupied compartments as before the call minus the units ordered of it,
\* and every compartment an 'ordered' audit row of the call names is Empty with
\* a NULL item reference.
C1_Conservation ==
  \A c \in Calls : Succeeded(c) =>
    LET b == before[c][1]
        items == local[c].orderData.items
    IN  /\ \A i \in Items :
             Cardinality(Stock(SubCompartments, i)) =
               Cardinality(Stock(b.SubCompartments, i)) - UnitsOf(items, i, Len(items))
        /\ \A t \in NewTransactions(c) :
             /\ SubCompartments[t.subcom_place].status = "Empty"
             /\ SubCompartments[t.subcom_place].item_id = NULL

\* C1 witness: an order of two lines has succeeded
C1_Witness ==
  \E c \in Calls :
    /\ Succeeded(c)
    /\ Len(local[c].orderData.items) = 2
    /\ Cardinality(NewTransactions(c)) = 2

\* C2 (atomicity across lines): after a call run on its own failed because a
\* line could not be satisfied, the committed tables are what they were when
\* the call began: no release of an earlier line, no Orders row, no OrderItems
\* row and no 'ordered' Transactions row of the attempt remains.
C2_AtomicAcrossLines ==
  \A c \in Calls : FailedForStock(c) =>
    /\ SubCompartments = before[c][1].SubCompartments
    /\ Orders = before[c][1].Orders
    /\ OrderItems = before[c][1].OrderItems
    /\ Transactions = before[c][1].Transactions

\* C2 witness: a two-line order failed on its second line after its first
\* line, for another item that was in stock, had been processed
C2_Witness ==
  \E c \in Calls :
    LET items == local[c].orderData.items
    IN  /\ FailedForStock(c)
        /\ Len(items) = 2
        /\ items[1].item_id # items[2].item_id
        /\ Stock(before[c][1].SubCompartments, items[1].item_id) # {}
        /\ result[c].message[3] = items[2].item_id

\* C3 (deterministic selection): right after the selection of a line, the
\* selected compartments are Occupied by the line's item, ascend strictly by
\* (column, row, sub-slot), sort before every Occupied compartment of the item
\* that was not selected, and are as many as the quantity; with the item in
\* A1b, A2a and B1a, quantity 2 selects exactly [A1b, A2a].
C3_DeterministicSelection ==
  \A c \in Calls : (pc[c] = "update" /\ local[c].k = 1) =>
    LET s == local[c].compartmentsToUpdate
        occupied == Stock(View(c), Item(c).item_id)
    IN  /\ Len(s) = Item(c).quantity
        /\ \A n \in 1..Len(s) : s[n] \in occupied
        /\ \A m, n \in 1..Len(s) : m < n => KeyLess(KeyOf(s[m]), KeyOf(s[n]))
        /\ \A p \in occupied \ Range(s) :
             \A n \in 1..Len(s) : KeyLess(KeyOf(s[n]), KeyOf(p))
        /\ (occupied = {"A1b", "A2a", "B1a"} /\ Item(c).quantity = 2)
             => s = << "A1b", "A2a" >>

\* C3 witness: two of three Occupied compartments of an item were selected
C3_Witness ==
  \E c \in Calls :
    /\ pc[c] = "update" /\ local[c].k = 1
    /\ Len(local[c].compartmentsToUpdate) = 2
    /\ Cardinality(Stock(View(c), Item(c).item_id)) = 3

\* the stock of the item of line n that the earlier lines of the request leave
AvailableAt(ledger, items, n) ==
  Cardinality(Stock(ledger, items[n].item_id))
    - UnitsOf(items, items[n].item_id, n - 1)

\* C4 (insufficient stock): a call run on its own whose request has a line
\* that asks for more units than are Occupied never returns an order; and when
\* a call fails for lack of stock, the message its caller receives names a
\* line's item, the units available to that line and the larger quantity it
\* asked for, the ledger is unchanged and no Orders row was created.
C4_InsufficientStock ==
  \A c \in Calls :
    LET b == before[c][1]
        items == local[c].orderData.items
        response == ControllerResponse(result[c])
    IN  /\ ( /\ pc[c] = "finally"
             /\ \E n \in 1..Len(items) :
                  /\ items[n].item_id \in Items
                  /\ AvailableAt(b.SubCompartments, items, n) < items[n].quantity )
             => response.status = 500
        /\ FailedForStock(c) =>
             /\ \E n \in 1..Len(items) :
                  /\ AvailableAt(b.SubCompartments, items, n) < items[n].quantity
                  /\ response.message =
                       << "Error creating order", "Insufficient inventory",
                          items[n].item_id,
                          AvailableAt(b.SubCompartments, items, n),
                          items[n].quantity >>
             /\ response.message # << "Error creating order", "storage error" >>
             /\ SubCompartments = b.SubCompartments
             /\ Orders = b.Orders

\* C4 witness: a request for two units of an item with one Occupied
\* compartment failed for lack of stock
C4_Witness ==
  \E c \in Calls :
    /\ FailedForStock(c)
    /\ result[c].message[4] = 1
    /\ result[c].message[5] = 2

\* the units of item i in the committed order lines
RECURSIVE UnitsIn(_, _)
UnitsIn(rows, i) ==
  IF rows = {} THEN 0
  ELSE LET r == The(rows)
       IN  (IF r.item_id = i THEN r.quantity ELSE 0) + UnitsIn(rows \ {r}, i)

\* the compartments that hold item i or were released holding it
EverStocked(i) ==
  Stock(SubCompartments, i)
    \cup { t.subcom_place : t \in { r \in Transactions : r.item_id = i } }

\* C5 (no overselling under concurrency): no compartment is released by two
\* committed orders, and the committed order lines of an item never add up to
\* more units than there were compartments Occupied by it.
C5_NoOverselling ==
  /\ \A t, u \in Transactions :
       (t.action = "ordered" /\ u.action = "ordered" /\ t.subcom_place = u.subcom_place)
         => t = u
  /\ \A i \in Items : UnitsIn(OrderItems, i) <= Cardinality(EverStocked(i))

\* C6 (a short selection is a failure): a call goes on past the selection of
\* a line (to the releases, to the next line or to the commit) only if the
\* selection returned as many compartments as the line asks for.
C6_ShortSelectionAborts ==
  \A c \in Calls :
    LET items == local[c].orderData.items
        selected == Len(local[c].compartmentsToUpdate)
    IN  /\ pc[c] \in {"update", "insertTransaction"} => selected = Item(c).quantity
        /\ (pc[c] = "count" /\ local[c].line > 1)
             => selected = items[local[c].line - 1].quantity
        /\ pc[c] = "commit" => selected = items[Len(items)].quantity

\* C7 (no double release): an UPDATE that releases a compartment succeeds
\* only on a compartment that is Occupied; on a compartment that is already
\* Empty it fails and no audit row follows.
C7_NoDoubleRelease ==
  [][ \A c \in Calls :
        UpdateCompartment(c) =>
          /\ SubCompartments[Compartment(c)].status = "Occupied"
          /\ Compartment(c) \notin txn[c].emptied ]_vars

\* status and item reference of a compartment row agree
Consistent(row) ==
  /\ row.status \in {"Empty", "Occupied"}
  /\ row.status = "Occupied" <=> row.item_id # NULL
  /\ row.status = "Empty" <=> row.item_id = NULL
  /\ row.item_id # NULL => row.item_id \in Items

\* C8 (compartment invariant): in every reachable state every compartment is
\* Occupied exactly if its item reference is not NULL (and then names a
\* catalog item) and Empty exactly if it is NULL, in the committed ledger and
\* in the ledger every running call reads.
C8_CompartmentInvariant ==
  \A p \in Places :
    /\ Consistent(SubCompartments[p])
    /\ \A c \in Calls : Consistent(View(c)[p])

\* C8 witness: one order was committed and released a compartment, another
\* call was rolled back
C8_Witness ==
  /\ \E t \in Transactions : SubCompartments[t.subcom_place].status = "Empty"
  /\ \E c \in Calls : Failed(c)

\* C9 (audit trail of an order): every 'ordered' audit row a call writes
\* names a compartment the call has released before, one row per compartment;
\* a call that succeeds has added as many 'ordered' rows as its request has
\* units, one for each compartment it released, naming the item the
\* compartment held; a call that fails has added none.
C9_AuditTrail ==
  \A c \in Calls :
    LET items == local[c].orderData.items
    IN  /\ \A t \in txn[c].Transactions :
             /\ t.action = "ordered"
             /\ t.subcom_place \in txn[c].emptied
             /\ \A u \in txn[c].Transactions :
                  u.subcom_place = t.subcom_place => u = t
        /\ Succeeded(c) =>
             /\ Cardinality(NewTransactions(c)) = Units(items)
             /\ \A t \in NewTransactions(c) :
                  /\ t.action = "ordered"
                  /\ t.subcom_place \in Stock(before[c][1].SubCompartments, t.item_id)
                  /\ UnitsOf(items, t.item_id, Len(items)) > 0
             /\ \A p \in Places :
                  (SubCompartments[p] # before[c][1].SubCompartments[p])
                    => Cardinality({ t \in NewTransactions(c) : t.subcom_place = p }) = 1
        /\ Failed(c) => NewTransactions(c) = {}

\* the sum of quantity x unit price over the first n lines
RECURSIVE LineSum(_, _)
LineSum(items, n) ==
  IF n = 0 THEN 0
  ELSE LineSum(items, n - 1) + items[n].quantity * items[n].price

\* C10 (total computation): when the request carries no total, the total of
\* the Orders row the call writes is the sum of quantity x unit price over its
\* lines; lines (qty 2, price 10) and (qty 1, price 5) give 25.
C10_TotalComputation ==
  /\ \A c \in Calls :
       \A o \in Orders \cup txn[c].Orders :
         (o.order_id = local[c].orderId /\ local[c].orderData.total_amount = << >>)
           => o.total_amount =
                LineSum(local[c].orderData.items, Len(local[c].orderData.items))
  /\ TotalAmount([ items |-> << [item_id |-> 1, quantity |-> 2, price |-> 10],
                                [item_id |-> 2, quantity |-> 1, price |-> 5] >>,
                   total_amount |-> << >>,
                   order_status |-> Undefined ]) = 25

\* C10 witness: an order of a line of two units at price 2, without a total,
\* is committed with total 4
C10_Witness ==
  \E c \in Calls :
    /\ Succeeded(c)
    /\ local[c].orderData.total_amount = << >>
    /\ Len(local[c].orderData.items) = 1
    /\ local[c].orderData.items[1].quantity = 2
    /\ local[c].orderData.items[1].price = 2
    /\ \E o \in Orders : o.order_id = local[c].orderId /\ o.total_amount = 4

\* C11 (a reported failure means the order was not placed): when a call run
\* on its own ends with an error for its caller, whatever query of the call
\* failed, the committed tables are what they were when the call began: no
\* Orders row, no OrderItems row, no release and no audit row of the call
\* persists.
C11_FailureLeavesNothing ==
  \A c \in Calls : Failed(c) =>
    /\ Orders = before[c][1].Orders
    /\ OrderItems = before[c][1].OrderItems
    /\ SubCompartments = before[c][1].SubCompartments
    /\ Transactions = before[c][1].Transactions

\* a value that is not greater than 0
NotPositive(v) == v = << >> \/ v[1] <= 0

\* a body with no line, without a customer field, or with a line whose
\* quantity or unit price is not greater than 0
NotValid(body) ==
  \/ ~body.customer
  \/ Len(body.items) = 0
  \/ \E n \in 1..Len(body.items) :
       NotPositive(body.items[n].quantity) \/ NotPositive(body.items[n].price)

OrderOf(c) == { o \in Orders : o.order_id = local[c].orderId }

LinesOf(c) == { r \in OrderItems : r.order_id = local[c].orderId }

\* one OrderItems row per requested line, each with the line's item, quantity
\* and unit price and with total = quantity x unit price
OneRowPerLine(c) ==
  LET items == local[c].orderData.items
  IN  /\ Cardinality(LinesOf(c)) = Len(items)
      /\ \E f \in [1..Len(items) -> LinesOf(c)] :
           /\ \A m, n \in 1..Len(items) : m # n => f[m] # f[n]
           /\ \A n \in 1..Len(items) :
                /\ f[n].item_id = items[n].item_id
                /\ f[n].quantity = items[n].quantity
                /\ f[n].unit_price = items[n].price
                /\ f[n].total_price = items[n].quantity * items[n].price

\* C13 (a new order is pending, with one line per requested line): every
\* Orders row a call writes has status pending, and the order a successful
\* call has created has exactly one OrderItems row per requested line, with
\* total = quantity x unit price.
C13_PendingWithLines ==
  \A c \in Calls :
    /\ \A o \in txn[c].Orders : o.order_status = "pending"
    /\ Succeeded(c) => OrderOf(c) # {} /\ OneRowPerLine(c)

\* C14 (best-effort notification): a notifier whose post failed or timed
\* out has logged the failure and returned without throwing (sendToAryan and
\* the notify* functions return null); no step of a notifier changes the
\* tables, a transaction or a call; and while a post is awaited, a call that
\* is about to commit or to roll back can do so.
C14_BestEffortNotification ==
  /\ [](aryan.stage = "returned" /\ aryan.console # "none" =>
          /\ ~aryan.thrown
          /\ aryan.console \in PostFailures
          /\ aryan.fn # "sendEvent" => aryan.returned = "null")
  /\ [](aryan.stage = "posting" =>
          \A c \in Calls : /\ pc[c] = "commit" => ENABLED Commit(c)
                           /\ pc[c] = "catch" => ENABLED Rollback(c))
  /\ [][aryan' # aryan => UNCHANGED << orderVars, fetcher >>]_vars

\* C14 witness: the post of notifyOrderPlacement timed out while a call had
\* uncommitted releases, and the call went on to commit
C14_Witness ==
  /\ aryan.stage = "returned"
  /\ aryan.fn = "notifyOrderPlacement"
  /\ aryan.console = "timeout"
  /\ \E c \in Calls : Succeeded(c) /\ NewTransactions(c) # {}

C16_UnknownItem ==
  /\ \A c \in Calls :
       LET items == local[c].orderData.items
       IN  (pc[c] = "finally" /\ \E n \in 1..Len(items) : items[n].item_id \notin Items)
             => /\ Failed(c)
                /\ ControllerResponse(result[c]).status = 500
                /\ result[c].message \in
                     { << "Error creating order", "foreign key constraint fails" >>,
                       << "Error creating order", "storage error" >> }
                /\ Committed = before[c][1]
  /\ \A r \in OrderItems : r.item_id \in Items

\* C16 witness: a request with a line for a stocked catalog item and a line
\* for item 4 was rejected for the reference to item 4
C16_Witness ==
  \E c \in Calls :
    LET items == local[c].orderData.items
    IN  /\ Failed(c)
        /\ result[c].message[2] = "foreign key constraint fails"
        /\ Len(items) = 2
        /\ items[1].item_id \in Items
        /\ Stock(SubCompartments, items[1].item_id) # {}
        /\ items[2].item_id \notin Items

\* C17 (every call terminates): on a storage layer that answers every query
\* in the end, a call that has begun eventually returns, with the order or
\* with an error, and by then its transaction is closed and it holds no row
\* lock; also while another call runs on the same items.
C17_Terminates ==
  /\ \A c \in Calls : (pc[c] # "idle") ~> (pc[c] = "returned")
  /\ [](\A c \in Calls :
          pc[c] = "returned" =>
            /\ txn[c] = NoTxn
            /\ result[c].returned \in {"order", "error"}
            /\ \A p \in Places : rowLock[p] # c)

\* C17 witness: two calls ran on the same items; one waited for a row lock of
\* the other and returned an error, the other returned its order
C17_Witness ==
  \E c, d \in Calls :
    /\ pc[c] = "returned" /\ pc[d] = "returned"
    /\ result[c].returned = "error"
    /\ result[c].message = << "Error creating order", "storage error" >>
    /\ result[d].returned = "order"

\* C18 (order status invariant): after any createOrder and updateOrderStatus
\* requests through the controller, the status of every Orders row, committed
\* or written by a running call, is one of pending, processing, shipped,
\* delivered, cancelled.
C18_OrderStatusInvariant ==
  /\ \A o \in Orders : o.order_status \in OrderStatuses
  /\ \A c \in Calls : \A o \in txn[c].Orders : o.order_status \in OrderStatuses

\* C19 (status repair): after the fix script has run, every compartment has
\* status Empty or Occupied, whatever status and item reference it had; the
\* script changes no compartment that is Occupied and no item reference.
C19_StatusRepair ==
  [][ FixStatuses =>
        \A p \in Places :
          /\ SubCompartments'[p].status \in {"Empty", "Occupied"}
          /\ SubCompartments[p].status = "Occupied" =>
               SubCompartments'[p] = SubCompartments[p]
          /\ SubCompartments'[p].item_id = SubCompartments[p].item_id ]_vars

\* C20 (cart quantities are validated against inventory): with the product
\* list unchanged and the cart empty at first, every line of the cart has a
\* quantity of at least 1 and at most the available_count of its product,
\* which is listed and not 0.
C20_CartWithinInventory ==
  \A n \in 1..Len(cart) :
    /\ Listed(cart[n].item_id)
    /\ products[cart[n].item_id] > 0
    /\ 1 <= cart[n].quantity
    /\ cart[n].quantity <= products[cart[n].item_id]

\* C20 witness: the cart has two lines, one of them with as many units as
\* its product has available, more than 1
C20_Witness ==
  /\ Len(cart) = 2
  /\ cart[1].quantity = products[cart[1].item_id]
  /\ cart[1].quantity > 1
  /\ \E i \in Listing : products[i] = 0

\* the first line of a request that the ledger, after the releases of the
\* lines before it, cannot satisfy; 0 if there is none
FirstUnsatisfied(ledger, items) ==
  LET short == { n \in 1..Len(items) :
                   AvailableAt(ledger, items, n) < items[n].quantity }
  IN  IF short = {} THEN 0
      ELSE CHOOSE n \in short : \A m \in short : n <= m

\* C21 (lines in the order submitted): when a call run on its own counts the
\* stock of line n it has released exactly the units of lines 1..n-1, and the
\* count it reads is the stock at the start of the call minus the units that
\* the earlier lines took of the same item; when the call fails for lack of
\* stock, the error names the item, available count and quantity of the first
\* line in submission order that cannot be satisfied.
C21_LinesInOrder ==
  \A c \in Calls :
    LET b == before[c][1]
        items == local[c].orderData.items
        first == FirstUnsatisfied(b.SubCompartments, items)
    IN  /\ pc[c] = "count" =>
             Cardinality(txn[c].emptied) = Units(SubSeq(items, 1, local[c].line - 1))
        /\ pc[c] = "select" =>
             local[c].available = AvailableAt(b.SubCompartments, items, local[c].line)
        /\ FailedForStock(c) =>
             /\ first # 0
             /\ result[c].message =
                  << "Error creating order", "Insufficient inventory",
                     items[first].item_id,
                     AvailableAt(b.SubCompartments, items, first),
                     items[first].quantity >>

\* C21 witness: a request of two lines of one unit each of the same item,
\* which had one Occupied compartment, failed on its second line with an
\* available count of 0
C21_Witness ==
  \E c \in Calls :
    LET items == local[c].orderData.items
    IN  /\ FailedForStock(c)
        /\ Len(items) = 2
        /\ items[1].item_id = items[2].item_id
        /\ Cardinality(Stock(before[c][1].SubCompartments, items[1].item_id)) = 1
        /\ result[c].message[4] = 0

\* the UPDATEs of lines 78-82 that call c has run
Releases(c) ==
  LET items == local[c].orderData.items
      earlier == Units(SubSeq(items, 1, local[c].line - 1))
  IN  CASE pc[c] = "update" -> earlier + local[c].k - 1
        [] pc[c] = "insertTransaction" -> earlier + local[c].k
        [] pc[c] = "commit" -> Units(items)
        [] OTHER -> Cardinality(txn[c].emptied)

\* C22 (no compartment is released twice by one call): a call has released
\* as many different compartments as it has run UPDATEs, so the compartments
\* released for different lines are disjoint, also when the lines name the
\* same item; and a call run on its own whose lines for one item add up to
\* more units than the item has Occupied compartments ends with an error and
\* leaves the tables as they were.
C22_DisjointReleases ==
  \A c \in Calls :
    LET b == before[c][1]
        items == local[c].orderData.items
    IN  /\ Cardinality(txn[c].emptied) = Releases(c)
        /\ \A t, u \in txn[c].Transactions : t.subcom_place = u.subcom_place => t = u
        /\ ( /\ pc[c] = "finally"
             /\ \E i \in Items :
                  UnitsOf(items, i, Len(items)) > Cardinality(Stock(b.SubCompartments, i)) )
             => Failed(c) /\ Committed = b

\* C22 witness: an order of two lines for the same item has succeeded and
\* its two audit rows name two different compartments
C22_Witness ==
  \E c \in Calls :
    LET items == local[c].orderData.items
    IN  /\ Succeeded(c)
        /\ Len(items) = 2
        /\ items[1].item_id = items[2].item_id
        /\ Cardinality({ t.subcom_place : t \in NewTransactions(c) }) = 2

\* C23 (boundary of the stock check): a call run on its own is rejected for
\* lack of stock only with an available count strictly below the quantity of
\* the line; a request each of whose lines asks for at most what is left for
\* it, the exact count included, passes every stock check and is not rejected
\* for lack of stock; and when it succeeds, an item whose lines ask for
\* exactly its Occupied count is left with no Occupied compartment.
C23_StockBoundary ==
  \A c \in Calls :
    LET b == before[c][1]
        items == local[c].orderData.items
    IN  /\ FailedForStock(c) => result[c].message[4] < result[c].message[5]
        /\ pc[c] = "select" => local[c].available >= Item(c).quantity
        /\ ( /\ pc[c] = "finally"
             /\ \A n \in 1..Len(items) :
                  AvailableAt(b.SubCompartments, items, n) >= items[n].quantity )
             => ~FailedForStock(c)
        /\ Succeeded(c) =>
             \A i \in Items :
               UnitsOf(items, i, Len(items)) = Cardinality(Stock(b.SubCompartments, i))
                 => Stock(SubCompartments, i) = {}

\* C23 witness: a line for two units of an item with exactly two Occupied
\* compartments has succeeded and the item has no Occupied compartment left
C23_Witness ==
  \E c \in Calls :
    LET items == local[c].orderData.items
    IN  /\ Succeeded(c)
        /\ Len(items) = 1
        /\ items[1].quantity = 2
        /\ Cardinality(Stock(before[c][1].SubCompartments, items[1].item_id)) = 2
        /\ Stock(SubCompartments, items[1].item_id) = {}

\* the items the request of call c names
Named(c) ==
  { local[c].orderData.items[n].item_id : n \in 1..Len(local[c].orderData.items) }

\* C24 (frame of createOrder): no step of a createOrder call changes a
\* compartment that is Empty, turns a compartment to Occupied or gives it an
\* item, or changes or removes a committed Orders, OrderItems or Transactions
\* row; and the commit of a call changes only compartments that held an item
\* named in its request.  (Boxes and Items are fixed: no statement of
\* createOrder writes them.)
C24_Frame ==
  [][ /\ \A p \in Places :
           /\ SubCompartments[p].status = "Empty" => SubCompartments'[p] = SubCompartments[p]
           /\ SubCompartments'[p] # SubCompartments[p] => SubCompartments'[p] = EmptyRow
      /\ Orders \subseteq Orders'
      /\ OrderItems \subseteq OrderItems'
      /\ Transactions \subseteq Transactions'
      /\ \A c \in Calls : Commit(c) =>
           \A p \in Places :
             SubCompartments'[p] # SubCompartments[p] => SubCompartments[p].item_id \in Named(c)
      /\ tables' # tables => \E c \in Calls : Commit(c) ]_vars

\* C24 witness: the second order has succeeded on a rack with a compartment
\* that was Empty and a compartment of an item it does not name, which still
\* holds that item, and the Orders row of the first order is as it was
C24_Witness ==
  \E c \in Calls :
    LET b == before[c][1]
    IN  /\ Succeeded(c)
        /\ b.Orders # {} /\ b.OrderItems # {} /\ b.Transactions # {}
        /\ NewTransactions(c) # {}
        /\ \E p \in Places : b.SubCompartments[p].status = "Empty"
        /\ \E p \in Places :
             /\ SubCompartments[p].status = "Occupied"
             /\ SubCompartments[p].item_id \notin Named(c)

\* the caller has finished: it took a connection and its call is over
Finished(k) ==
  /\ conn[k].released > 0 \/ conn[k].issued > 0
  /\ IF k = "batch" THEN BatchOver ELSE pc[k] = "returned"

\* C25 (connection discipline): a caller never releases its connection more
\* than once and never while it has issued neither commit nor rollback; when
\* its call is over it has released the connection exactly once, exactly one
\* commit or rollback has ended its transaction, and the connection did not
\* go back to the pool with the transaction open.
C25_ConnectionDiscipline ==
  \A k \in Callers :
    /\ conn[k].released <= 1
    /\ conn[k].released = 1 => conn[k].issued >= 1
    /\ Finished(k) =>
         /\ conn[k].released = 1
         /\ ~conn[k].held
         /\ conn[k].ended = 1
         /\ ~conn[k].pooledOpen

\* C26 (caller-supplied total): the Orders row a call writes carries the
\* total_amount of the request as it is when the request has one that is not
\* 0, whatever the lines add up to, and the sum of quantity x unit price over
\* the lines when the request has none or has 0.
C26_CallerSuppliedTotal ==
  \A c \in Calls :
    LET orderData == local[c].orderData
        sum == LineSum(orderData.items, Len(orderData.items))
    IN  \A o \in Orders \cup txn[c].Orders :
          o.order_id = local[c].orderId =>
            /\ (orderData.total_amount # << >> /\ orderData.total_amount[1] # 0)
                 => o.total_amount = orderData.total_amount[1]
            /\ (orderData.total_amount = << >> \/ orderData.total_amount = << 0 >>)
                 => o.total_amount = sum

\* C26 witness: an order whose lines add up to 4 was committed with the
\* total 1 that the request carried
C26_Witness ==
  \E c \in Calls :
    /\ Succeeded(c)
    /\ local[c].orderData.total_amount = << 1 >>
    /\ LineSum(local[c].orderData.items, Len(local[c].orderData.items)) = 4
    /\ \E o \in Orders : o.order_id = local[c].orderId /\ o.total_amount = 1

\* C27 (updateOrderStatus through the controller): a PATCH without a status
\* or with a status that is not one of pending, processing, shipped,
\* delivered, cancelled is answered 400 and changes no order; one with a
\* valid status for an id that no order has is answered 404 and changes no
\* order; any other is answered 200 and sets the status of the order with that
\* id to the requested one, whatever it was, leaving every other order as it
\* is; and no PATCH changes the ledger, the order lines, the audit log or a
\* running call.
C27_UpdateOrderStatus ==
  [][ \A orderId \in OrderIds, status \in PatchStatuses :
        UpdateOrderStatus(orderId, status) =>
          LET addressed == { o \in Orders : o.order_id = orderId }
          IN  /\ UNCHANGED << SubCompartments, OrderItems, Transactions, autoInc,
                              rowLock, pc, local, txn, result >>
              /\ status \notin OrderStatuses =>
                   res'.status = 400 /\ Orders' = Orders
              /\ (status \in OrderStatuses /\ addressed = {}) =>
                   res'.status = 404 /\ Orders' = Orders
              /\ (status \in OrderStatuses /\ addressed # {}) =>
                   /\ res'.status = 200
                   /\ Cardinality(addressed) = 1
                   /\ Orders' \ (Orders \ addressed) =
                        { [o EXCEPT !.order_status = status] : o \in addressed }
                   /\ Orders \ addressed \subseteq Orders' ]_vars

\* C27 witness: two orders exist, a PATCH was answered 200, the first order
\* is cancelled and the second is delivered
C27_Witness ==
  /\ res.status = 200
  /\ \E o, q \in Orders :
       /\ o.order_id = 1 /\ o.order_status = "cancelled"
       /\ q.order_id = 2 /\ q.order_status = "delivered"

\* the rows are those of the audit entries of the list, one per entry, with
\* identifiers that increase along the list
InListOrder(rows, transactions) ==
  /\ Cardinality(rows) = Len(transactions)
  /\ \E f \in [1..Len(transactions) -> rows] :
       /\ \A m, n \in 1..Len(transactions) : m < n => f[m].tran_id < f[n].tran_id
       /\ \A n \in 1..Len(transactions) :
            /\ f[n].item_id = transactions[n].item_id
            /\ f[n].action = transactions[n].action
            /\ f[n].subcom_place =
                 (IF transactions[n].subcom_place = Undefined
                  THEN "ECOMMERCE_ORDER" ELSE transactions[n].subcom_place)

\* C28 (createMultipleTransactions is all-or-nothing): while a call runs
\* none of its rows is committed; the call returns only by committing the rows
\* of all entries of its list at once, in list order with increasing
\* identifiers, and returns them; after a rejected INSERT the call can only
\* throw, and by then it has committed nothing.
C28_AllOrNothing ==
  /\ [](~BatchOver => batch.rows \cap Transactions = {})
  /\ [](batch.stage = "thrown" => batch.rows = {})
  /\ [][ /\ BatchCommit =>
             /\ InListOrder(batch.rows, batch.transactions)
             /\ Transactions' = Transactions \cup batch.rows
             /\ batch'.stage = "returned" /\ batch'.rows = batch.rows
         /\ (~BatchOver /\ ~BatchCommit) => Transactions' = Transactions
         /\ (batch.stage = "catch" /\ batch' # batch) => batch'.stage = "thrown"
         /\ (batch'.stage = "returned" /\ batch' # batch) => BatchCommit ]_vars

\* C28 witness: the first call had a list of two entries; the INSERT of the
\* second was rejected after the first had been inserted, the call has thrown
\* and no row is committed
C28_Witness ==
  /\ batch.stage = "thrown"
  /\ batch.k = 2
  /\ autoInc.Transactions = 3
  /\ Transactions = {}

\* C29 (storefront order flow): a submission has emptied the cart or issued
\* a retrieve-product request only if the backend has created the order; when
\* POST /orders was rejected or failed, the submission ends with the cart as
\* it was submitted and with no retrieve-product request issued.
C29_OrderFlow ==
  /\ submission.stage = "cleared" => submission.posted = "created"
  /\ submission.retrieved > 0 => submission.posted = "created"
  /\ submission.posted \in {"rejected", "failed"} =>
       /\ submission.stage = "kept"
       /\ submission.retrieved = 0
       /\ cart = submission.cart

\* C30 (apiFetch retry bound): a call apiFetch(url, options, r) makes at
\* most r + 1 fetch attempts and is over after the last of them; it stops at
\* the first response that is ok and returns the parsed body of it; after
\* r + 1 responses that are not ok it returns the parsed body of the last;
\* it throws only when the last attempt threw, with no retry left.
C30_RetryBound ==
  /\ fetcher.attempts <= fetcher.r + 1
  /\ fetcher.attempts = fetcher.r + 1 => fetcher.stage # "fetching"
  /\ fetcher.last = "ok" =>
       /\ fetcher.oks = 1
       /\ fetcher.stage = "returned"
       /\ fetcher.value = Json(fetcher.body)
       /\ fetcher.value # "SyntaxError"
  /\ (fetcher.last = "notok" /\ fetcher.attempts = fetcher.r + 1) =>
       /\ fetcher.stage = "returned"
       /\ fetcher.value = Json(fetcher.body)
       /\ fetcher.value # "SyntaxError"
  /\ fetcher.stage = "returned" =>
       \/ fetcher.last = "ok"
       \/ fetcher.last = "notok" /\ fetcher.attempts = fetcher.r + 1
  /\ fetcher.stage = "thrown" =>
       /\ fetcher.last = "threw"
       /\ fetcher.attempts = fetcher.r + 1

====
